---- MODULE Spec2Model ----
(***************************************************************************)
(* Session state machine and scoring engine of the reflex trainer          *)
(* (src/App.tsx), with the React closures that its handlers read.          *)
(*                                                                         *)
(* One action is one event handler (or timer callback) together with the   *)
(* render that follows it.  A render re-creates handleGlobalClick only     *)
(* when one of its useCallback dependencies changed; the session stats it  *)
(* captured are kept in clickClosure.                                      *)
(***************************************************************************)
EXTENDS Integers, Sequences, FiniteSets, Bags, TLC

VARIABLES
    settings,       \* useState<GameSettings>            App.tsx:23
    gameStats,      \* useState<GameStats>               App.tsx:24
    bubblePos,      \* useState<Position | null>         App.tsx:36
    isPaused,       \* useState(false)                   App.tsx:45
    isMobile,       \* useState(false) + checkMobile     App.tsx:48, 96
    timerRef,       \* the 1-second countdown interval   App.tsx:54
    spawnTimeouts,  \* bag of pending setTimeout(spawnBubble)   App.tsx:352, 452
    clickClosure,   \* gameStats seen by handleGlobalClick  App.tsx:480-518
    now,            \* Date.now(), in units of TimeUnit ms
    bubbleSpawnTime,    \* useState<number>(0)          App.tsx:37
    lastClickTime,  \* useState<number>(0)              App.tsx:41
    pausedTime,     \* time spent paused since bubbleSpawnTime (history)
    savedRecords,   \* records this session gave to saveScore   App.tsx:386
    completed,      \* challenge ids given to markChallengeComplete  App.tsx:400
    viewport,       \* window.innerWidth, window.innerHeight   App.tsx:116-117
    random,         \* what the next two Math.random() return, in 1/RandomDen
    position,       \* x, y of bubblePos in 1/RandomDen px   App.tsx:244
    args,           \* inputs of the scoring function under test
    res             \* the points of its two hits, <<>> before they are scored

vars == <<settings, gameStats, bubblePos, isPaused, isMobile, timerRef,
          spawnTimeouts, clickClosure, now, bubbleSpawnTime, lastClickTime,
          pausedTime, savedRecords, completed, viewport, random, position,
          args, res>>

gameVars == <<settings, gameStats, bubblePos, isPaused, isMobile, timerRef,
              spawnTimeouts, clickClosure, now, bubbleSpawnTime,
              lastClickTime, pausedTime, savedRecords, completed, viewport,
              random, position>>

----------------------------------------------------------------------------
(* Values *)

NULL == "null"
POS == "pos"            \* a Position object; each spawn creates a new one
INTERVAL == "interval"  \* a running setInterval handle

TIME_TRIAL == "Contrarreloj"
SURVIVAL == "Supervivencia"
GameMode == {TIME_TRIAL, SURVIVAL}

FULL == "Pantalla Completa"
BOARD == "Pizarra (Estándar)"
COMPACT == "Compacto"
ScreenMode == {FULL, BOARD, COMPACT}

EASY == "Easy"
NORMAL == "Normal"
HARD == "Hard"
Difficulty == {NORMAL, HARD}

MinDuration == 5
InitialLives == 3
MissPenalty == 50
LevelUpEvery == 10
LedgerCap == 50

(* Bounds *)
MaxDuration == 5        \* stored durations are MinDuration..MaxDuration
MaxHits == 2            \* hits per session in Spec
MaxHitsLong == 11       \* hits per session in SpecLong
MaxMisses == 4          \* misses per session
MaxMissesLong == 2      \* misses per session in SpecLong
MaxPending == 2         \* pending spawn timeouts
MaxCombo == 12          \* combos tried by SpecPoints
MaxNow == 4500          \* last clock value of SpecClock, in ms
MaxHitsClock == 1       \* hits per session in SpecClock
MaxMissesClock == 1     \* misses per session in SpecClock
MaxHitsBoard == 1       \* hits per session in SpecBoard
MaxMissesBoard == 1     \* misses per session in SpecBoard
RandomDen == 1000       \* Math.random() is random / RandomDen
MaxPendingSettings == 1 \* pending spawn timeouts in SpecSettings
MaxRecords == 52        \* entries in the history of SpecLedger
MaxSaves == 3           \* records saved per run of SpecStreak
MaxWrites == 3          \* storage writes per run of SpecStorage
MaxLevel == 20          \* levels tried by SpecSize
MaxActs == 4            \* things the player does in a run of SpecLive

\* Reaction times in ms.  Points rounds a double; the exact quotient used
\* below agrees with it wherever the product is not a tie that the double
\* misses (NotTie), and on every input Spec and SpecLong reach.
ReactionTimes == {100}
ReactionGrid == {0, 9, 10, 100, 400, 555, 990, 999, 1000, 1500}


\* Window sizes tried by SpecBoard; the board's fractions of them are whole.

InitialViewport == [w |-> 1000, h |-> 700]

\* Outcomes of the two Math.random() of a spawn tried by SpecBoard.

----------------------------------------------------------------------------
(* Settings *)

DifficultyPreset(diff) ==
    CASE diff = EASY   -> [bubbleSize |-> 90, spawnDelay |-> 400]
      [] diff = NORMAL -> [bubbleSize |-> 60, spawnDelay |-> 200]
      [] diff = HARD   -> [bubbleSize |-> 40, spawnDelay |-> 0]

DEFAULT_SETTINGS ==
    [gameMode |-> TIME_TRIAL, screenMode |-> BOARD, difficulty |-> NORMAL,
     bubbleSize |-> 60, spawnDelay |-> 200, duration |-> 60]

\* Settings after the mount effect merged a validated stored value.
StoredSettings ==
    { [gameMode |-> m, screenMode |-> BOARD, difficulty |-> d,
       bubbleSize |-> DifficultyPreset(d).bubbleSize,
       spawnDelay |-> DifficultyPreset(d).spawnDelay,
       duration |-> t] :
         m \in GameMode, d \in Difficulty, t \in MinDuration..MaxDuration }


----------------------------------------------------------------------------
(* Scoring: handleHit, App.tsx:417-421 *)

Max(a, b) == IF a >= b THEN a ELSE b

\* mutant: the bonus grows with the reaction time
SpeedBonusSlow(reactionTime) == Max(0, (reactionTime \div 10) - 100)

SpeedBonus(reactionTime) == Max(0, 100 - (reactionTime \div 10))

\* round((100 + speedBonus) * (150 / bubbleSize) * (1 + combo * 0.1))
\* Math.round of the non-negative rational n/d: nearest integer, ties up.
Points(reactionTime, bubbleSize, combo) ==
    LET Round(n, d) == (2 * n + d) \div (2 * d)
    IN  Round((100 + SpeedBonus(reactionTime)) * 150 * (10 + combo),
              10 * bubbleSize)

----------------------------------------------------------------------------
(* State updaters passed to setGameStats *)

InitialStats ==
    [score |-> 0, combo |-> 0, maxCombo |-> 0, hits |-> 0, misses |-> 0,
     timeLeft |-> 0, lives |-> InitialLives, level |-> 1, isPlaying |-> FALSE]

\* mutant: the countdown stops one tick late
TickStatsLate(prev) ==
    IF prev.timeLeft <= 0
      THEN [prev EXCEPT !.timeLeft = 0, !.isPlaying = FALSE]
      ELSE [prev EXCEPT !.timeLeft = prev.timeLeft - 1]

\* countdown updater, App.tsx:301-307
TickStats(prev) ==
    IF prev.timeLeft <= 1
      THEN [prev EXCEPT !.timeLeft = 0, !.isPlaying = FALSE]
      ELSE [prev EXCEPT !.timeLeft = prev.timeLeft - 1]

\* mutant: maxCombo follows the combo before the hit
HitStatsStaleMax(prev, points, mode) ==
    LET newCombo == prev.combo + 1
        newLevel == IF mode = SURVIVAL /\ newCombo % LevelUpEvery = 0
                      THEN prev.level + 1 ELSE prev.level
    IN  [prev EXCEPT !.score = prev.score + points,
                     !.combo = newCombo,
                     !.maxCombo = Max(prev.maxCombo, prev.combo),
                     !.hits = prev.hits + 1,
                     !.level = newLevel]

\* mutant: level up every 10 hits instead of every 10th combo
HitStatsByHits(prev, points, mode) ==
    LET newCombo == prev.combo + 1
        newLevel == IF mode = SURVIVAL /\ (prev.hits + 1) % LevelUpEvery = 0
                      THEN prev.level + 1 ELSE prev.level
    IN  [prev EXCEPT !.score = prev.score + points,
                     !.combo = newCombo,
                     !.maxCombo = Max(prev.maxCombo, newCombo),
                     !.hits = prev.hits + 1,
                     !.level = newLevel]

\* handleHit updater, App.tsx:423-440
HitStats(prev, points, mode) ==
    LET newCombo == prev.combo + 1
        newLevel == IF mode = SURVIVAL /\ newCombo % LevelUpEvery = 0
                      THEN prev.level + 1 ELSE prev.level
    IN  [prev EXCEPT !.score = prev.score + points,
                     !.combo = newCombo,
                     !.maxCombo = Max(prev.maxCombo, newCombo),
                     !.hits = prev.hits + 1,
                     !.level = newLevel]

\* mutant: the session goes on with no life left
MissEndsLate(prev, mode) == mode = SURVIVAL /\ prev.lives - 1 < 0

\* handleMiss updater, App.tsx:460-476
MissEnds(prev, mode) == mode = SURVIVAL /\ prev.lives - 1 <= 0

\* mutant: the penalty is not floored at 0
MissStatsNoFloor(prev, mode) ==
    IF MissEnds(prev, mode)
      THEN [prev EXCEPT !.lives = 0, !.isPlaying = FALSE,
                        !.misses = prev.misses + 1]
      ELSE [prev EXCEPT !.combo = 0,
                        !.misses = prev.misses + 1,
                        !.lives = prev.lives - 1,
                        !.score = prev.score - MissPenalty]

MissStats(prev, mode) ==
    IF MissEnds(prev, mode)
      THEN [prev EXCEPT !.lives = 0, !.isPlaying = FALSE,
                        !.misses = prev.misses + 1]
      ELSE [prev EXCEPT !.combo = 0,
                        !.misses = prev.misses + 1,
                        !.lives = prev.lives - 1,
                        !.score = Max(0, prev.score - MissPenalty)]

\* mutant: a surrender is counted as a miss
SurrenderStatsAsMiss(prev) ==
    [prev EXCEPT !.isPlaying = FALSE, !.timeLeft = 0, !.combo = 0,
                 !.misses = prev.misses + 1]

\* handleSurrender updater, App.tsx:368
SurrenderStats(prev) == [prev EXCEPT !.isPlaying = FALSE, !.timeLeft = 0]

----------------------------------------------------------------------------
(* End of a session: accuracy, tags, record, challenges *)

\* A JavaScript number hits / total * 100, kept as the fraction num / den.
AtLeast(q, k) == q.num >= k * q.den

\* mutant: the ratio is not scaled to a percentage
EndAccuracyRatio(stats) ==
    IF stats.hits + stats.misses > 0
      THEN [num |-> stats.hits, den |-> stats.hits + stats.misses]
      ELSE [num |-> 0, den |-> 1]

\* accuracy of the game-end effect, App.tsx:375-377
EndAccuracy(stats) ==
    IF stats.hits + stats.misses > 0
      THEN [num |-> stats.hits * 100, den |-> stats.hits + stats.misses]
      ELSE [num |-> 0, den |-> 1]

\* accuracy shown by the HUD, App.tsx:541-543
DisplayAccuracy(stats) ==
    IF stats.hits + stats.misses = 0
      THEN [num |-> 100, den |-> 1]
      ELSE [num |-> stats.hits * 100, den |-> stats.hits + stats.misses]

\* settings.duration || 1
OrOne(n) == IF n = 0 THEN 1 ELSE n

\* mutant: Leyenda is given from 50000 points on
TagsLeyendaAtLeast(stats, s) ==
    (IF AtLeast(EndAccuracy(stats), 95) THEN <<"Cirujano">> ELSE <<>>)
    \o (IF stats.maxCombo >= 30 THEN <<"Ninja">> ELSE <<>>)
    \o (IF stats.score >= 50000 THEN <<"Leyenda">> ELSE <<>>)
    \o (IF stats.hits > 2 * OrOne(s.duration) THEN <<"Flash">> ELSE <<>>)

\* tags, App.tsx:380-384, pushed in this order
Tags(stats, s) ==
    (IF AtLeast(EndAccuracy(stats), 95) THEN <<"Cirujano">> ELSE <<>>)
    \o (IF stats.maxCombo >= 30 THEN <<"Ninja">> ELSE <<>>)
    \o (IF stats.score > 50000 THEN <<"Leyenda">> ELSE <<>>)
    \o (IF stats.hits > 2 * OrOne(s.duration) THEN <<"Flash">> ELSE <<>>)

\* the ScoreRecord given to saveScore, App.tsx:386-395 (id and date left out)
Record(stats, s) ==
    [score |-> stats.score, maxCombo |-> stats.maxCombo,
     accuracy |-> EndAccuracy(stats), difficulty |-> s.difficulty,
     mode |-> s.gameMode, tags |-> Tags(stats, s)]

\* DEFINED_CHALLENGES, App.tsx:62-67
ChallengeIds ==
    {"novice_survivor", "precision_master", "combo_king", "marathon"}

ChallengeCondition(id, stats, s) ==
    CASE id = "novice_survivor" -> s.gameMode = SURVIVAL /\ stats.level >= 5
      [] id = "precision_master" ->
           /\ stats.hits + stats.misses > 20
           /\ stats.hits * 100 >= 95 * (stats.hits + stats.misses)
      [] id = "combo_king" -> stats.maxCombo >= 50
      [] id = "marathon" ->
           s.gameMode = TIME_TRIAL /\ s.duration >= 120 /\ stats.hits > 0

----------------------------------------------------------------------------
(* Board and bubble geometry *)

Min(a, b) == IF a <= b THEN a ELSE b

\* updateBoardDimensions, App.tsx:115-138
BoardRect(vp, screenMode) ==
    CASE screenMode = BOARD ->
           LET width == Min((vp.w * 9) \div 10, 800)
               height == Min((vp.h * 8) \div 10, 600)
           IN  [x |-> (vp.w - width) \div 2, y |-> (vp.h - height) \div 2,
                width |-> width, height |-> height]
      [] screenMode = COMPACT ->
           LET width == Min((vp.w * 8) \div 10, 500)
               height == Min((vp.h * 6) \div 10, 400)
           IN  [x |-> (vp.w - width) \div 2, y |-> (vp.h - height) \div 2,
                width |-> width, height |-> height]
      [] OTHER -> [x |-> 0, y |-> 0, width |-> vp.w, height |-> vp.h]

\* size of spawnBubble (229-234) and of the rendered Bubble (602-604)
BubbleSize(gameMode, bubbleSize, level) ==
    IF gameMode = SURVIVAL THEN Max(30, bubbleSize - level * 2) ELSE bubbleSize

\* randomX, randomY of spawnBubble, App.tsx:236-242, as read through the
\* closure of the spawnBubble that runs
SpawnAt(closure) ==
    LET size == BubbleSize(closure.gameMode, closure.bubbleSize, closure.level)
        rect == closure.boardRect
        maxX == rect.x + rect.width - size
        maxY == rect.y + rect.height - size
    IN  << Max(rect.x * RandomDen,
               random[1] * (maxX - rect.x) + rect.x * RandomDen),
           Max(rect.y * RandomDen,
               random[2] * (maxY - rect.y) + rect.y * RandomDen) >>

NullPosition == <<0, 0>>

----------------------------------------------------------------------------
(* Closures *)

\* spawnBubble as memoised on [bubbleSize, gameMode, level, boardRect],
\* App.tsx:225-247: what a setTimeout(spawnBubble) keeps of the render that
\* scheduled it.
SpawnClosure(level, rect) ==
    [level |-> level, gameMode |-> settings.gameMode,
     bubbleSize |-> settings.bubbleSize, boardRect |-> rect]

\* boardRect of the current render
CurrentRect == BoardRect(viewport, settings.screenMode)

Pending == BagCardinality(spawnTimeouts)

\* mutant: the effect has no dependency list and runs in every render
GameEndEffectEveryRender ==
    IF ~gameStats'.isPlaying /\ gameStats'.hits > 0
      THEN /\ savedRecords' =
                Append(savedRecords, Record(gameStats', settings'))
           /\ completed' = completed \cup
                { id \in ChallengeIds :
                    ChallengeCondition(id, gameStats', settings') }
      ELSE /\ savedRecords' =
                IF gameStats'.isPlaying THEN <<>> ELSE savedRecords
           /\ UNCHANGED completed

\* The effect on [gameStats.isPlaying], App.tsx:373-407, runs in the render
\* in which isPlaying changed.  savedRecords is emptied when a session
\* starts, so that it holds what the current session wrote.
GameEndEffect ==
    IF gameStats'.isPlaying # gameStats.isPlaying
      THEN IF ~gameStats'.isPlaying /\ gameStats'.hits > 0
             THEN /\ savedRecords' =
                       Append(savedRecords, Record(gameStats', settings'))
                  /\ completed' = completed \cup
                       { id \in ChallengeIds :
                           ChallengeCondition(id, gameStats', settings') }
             ELSE /\ savedRecords' =
                       IF gameStats'.isPlaying THEN <<>> ELSE savedRecords
                  /\ UNCHANGED completed
      ELSE UNCHANGED <<savedRecords, completed>>

\* The render after a handler: handleGlobalClick is re-created when one of
\* [isPlaying, isPaused, bubblePos, settings, togglePause, isMobile, level]
\* changed (App.tsx:518); spawned says that spawnBubble ran, so that
\* setBubblePos got a new object.  The expiry effect (329) is re-created on
\* the same changes.  Neither depends on boardRect.  No handler moves the
\* clock, resizes the window or draws a random number for later.
Render(spawned) ==
    /\ clickClosure' =
          IF \/ spawned
             \/ bubblePos' # bubblePos
             \/ gameStats'.isPlaying # gameStats.isPlaying
             \/ isPaused' # isPaused
             \/ settings' # settings
             \/ gameStats'.level # gameStats.level
            THEN [combo |-> gameStats'.combo, level |-> gameStats'.level,
                  boardRect |-> BoardRect(viewport, settings'.screenMode)]
            ELSE clickClosure
    /\ IF spawned
         THEN bubbleSpawnTime' = now /\ lastClickTime' = now
              /\ pausedTime' = 0
         ELSE UNCHANGED <<bubbleSpawnTime, lastClickTime, pausedTime>>
    /\ GameEndEffect
    /\ now' = now
    /\ UNCHANGED <<viewport, random>>
    /\ ~spawned =>
         position' = IF bubblePos' = NULL THEN NullPosition ELSE position

\* setBubblePos of the spawnBubble that ran, unless endGame's
\* setBubblePos(null) came after it
Place(closure) ==
    position' = IF bubblePos' = NULL THEN NullPosition ELSE SpawnAt(closure)

\* gameStats.combo as read by handleHit (App.tsx:419): the mobile handler is
\* re-created by every render, the desktop one is handleGlobalClick's.
HitCombo == IF isMobile THEN gameStats.combo ELSE clickClosure.combo
HitLevel == IF isMobile THEN gameStats.level ELSE clickClosure.level
HitRect == IF isMobile THEN CurrentRect ELSE clickClosure.boardRect

\* mutant: the countdown is started in every mode
StartTimerAlways == INTERVAL

\* startTimer, App.tsx:294-311
StartTimer == IF settings.gameMode = TIME_TRIAL THEN INTERVAL ELSE NULL

\* nextDelay, App.tsx:445-449
NextDelay ==
    IF settings.gameMode = SURVIVAL
      THEN Max(0, 500 - HitLevel * 50)
      ELSE settings.spawnDelay

----------------------------------------------------------------------------
(* Initial state: mounted, settings restored, no session yet *)

Init ==
    /\ settings \in StoredSettings
    /\ gameStats = InitialStats
    /\ bubblePos = NULL
    /\ isPaused = FALSE
    /\ isMobile \in BOOLEAN
    /\ timerRef = NULL
    /\ spawnTimeouts = EmptyBag
    /\ viewport = InitialViewport
    /\ clickClosure = [combo |-> 0, level |-> 1, boardRect |-> CurrentRect]
    /\ now = 0
    /\ bubbleSpawnTime = 0
    /\ lastClickTime = 0
    /\ pausedTime = 0
    /\ savedRecords = <<>>
    /\ completed = {}
    /\ random = <<0, 0>>
    /\ position = NullPosition
    /\ args = <<>>
    /\ res = <<>>

----------------------------------------------------------------------------
(* Handlers *)

\* startGame, App.tsx:332-354; the start screen is rendered only while
\* not playing (App.tsx:653).
startGame ==
    /\ ~gameStats.isPlaying
    /\ Pending < MaxPending
    /\ isPaused' = FALSE
    /\ gameStats' =
         [score |-> 0, combo |-> 0, maxCombo |-> 0, hits |-> 0, misses |-> 0,
          timeLeft |-> settings.duration, lives |-> InitialLives,
          level |-> 1, isPlaying |-> TRUE]
    /\ spawnTimeouts' = spawnTimeouts (+)
                          SetToBag({SpawnClosure(gameStats.level, CurrentRect)})
    /\ timerRef' = StartTimer
    /\ UNCHANGED <<settings, bubblePos, isMobile>>
    /\ Render(FALSE)

\* the countdown interval fires, App.tsx:300-308; endGame (356-365) runs
\* inside the updater when the countdown is over.
tick ==
    /\ timerRef = INTERVAL
    /\ gameStats' = TickStats(gameStats)
    /\ IF gameStats'.isPlaying
         THEN UNCHANGED <<timerRef, bubblePos, isPaused>>
         ELSE timerRef' = NULL /\ bubblePos' = NULL /\ isPaused' = FALSE
    /\ UNCHANGED <<settings, isMobile, spawnTimeouts>>
    /\ Render(FALSE)

\* togglePause, App.tsx:250-267
togglePause ==
    /\ gameStats.isPlaying
    /\ IF isPaused
         THEN isPaused' = FALSE /\ timerRef' = StartTimer
         ELSE isPaused' = TRUE /\ timerRef' = NULL
    /\ UNCHANGED <<settings, gameStats, bubblePos, isMobile, spawnTimeouts>>
    /\ Render(FALSE)

\* handleLockChange, App.tsx:166-174: pointer lock lost during play
handleLockChange ==
    /\ gameStats.isPlaying /\ ~isPaused /\ ~isMobile
    /\ isPaused' = TRUE
    /\ timerRef' = NULL
    /\ UNCHANGED <<settings, gameStats, bubblePos, isMobile, spawnTimeouts>>
    /\ Render(FALSE)

\* mutant: clicks are handled while the session is paused
AcceptsClickPaused == gameStats.isPlaying

\* the early return of handleGlobalClick (481), handleMobileBackgroundClick
\* (522) and handleMobileBubbleInteract (530)
AcceptsClick == gameStats.isPlaying /\ ~isPaused

\* handleHit, App.tsx:412-456, reached from handleGlobalClick (498-513) or
\* handleMobileBubbleInteract (529-532)
handleHit(reactionTime) ==
    /\ AcceptsClick /\ bubblePos # NULL
    /\ LET points == Points(reactionTime, settings.bubbleSize, HitCombo)
       IN  gameStats' = HitStats(gameStats, points, settings.gameMode)
    /\ IF NextDelay > 0
         THEN /\ Pending < MaxPending
              /\ spawnTimeouts' =
                   spawnTimeouts (+)
                     SetToBag({SpawnClosure(HitLevel, HitRect)})
              /\ bubblePos' = NULL
              /\ position' = NullPosition
         ELSE /\ bubblePos' = POS
              /\ Place(SpawnClosure(HitLevel, HitRect))
              /\ UNCHANGED spawnTimeouts
    /\ UNCHANGED <<settings, isPaused, isMobile, timerRef>>
    /\ Render(NextDelay = 0)

\* endGame reached from the handleMiss updater, App.tsx:464-466
MissEndGame ==
    IF gameStats'.isPlaying
      THEN UNCHANGED <<timerRef, isPaused>>
      ELSE timerRef' = NULL /\ isPaused' = FALSE

\* handleMiss, App.tsx:458-477, reached from a click that is not on the
\* bubble (516) or a touch on the background (521-526)
handleMiss ==
    /\ AcceptsClick
    /\ gameStats' = MissStats(gameStats, settings.gameMode)
    /\ MissEndGame
    /\ bubblePos' = IF gameStats'.isPlaying THEN bubblePos ELSE NULL
    /\ UNCHANGED <<settings, isMobile, spawnTimeouts>>
    /\ Render(FALSE)

\* mutant: the expiry charges the miss and puts no new target
expireNoRespawn ==
    /\ settings.gameMode = SURVIVAL
    /\ gameStats.isPlaying /\ ~isPaused /\ bubblePos # NULL
    /\ gameStats' = MissStats(gameStats, settings.gameMode)
    /\ MissEndGame
    /\ bubblePos' = NULL
    /\ Place(SpawnClosure(gameStats.level, clickClosure.boardRect))
    /\ UNCHANGED <<settings, isMobile, spawnTimeouts>>
    /\ Render(FALSE)

\* the expiry poll finds the bubble too old, App.tsx:314-329: handleMiss,
\* then spawnBubble.  When the miss ends the session, endGame's
\* setBubblePos(null) is queued before spawnBubble's setBubblePos if React
\* runs the updater eagerly and after it if the updater runs in the render.
expire ==
    /\ settings.gameMode = SURVIVAL
    /\ gameStats.isPlaying /\ ~isPaused /\ bubblePos # NULL
    /\ gameStats' = MissStats(gameStats, settings.gameMode)
    /\ MissEndGame
    /\ IF gameStats'.isPlaying
         THEN bubblePos' = POS
         ELSE bubblePos' \in {POS, NULL}
    /\ Place(SpawnClosure(gameStats.level, clickClosure.boardRect))
    /\ UNCHANGED <<settings, isMobile, spawnTimeouts>>
    /\ Render(TRUE)

\* handleSurrender, App.tsx:367-370: the HUD button through
\* handleGlobalClick (492-495) or the pause overlay's button (647)
handleSurrender ==
    /\ gameStats.isPlaying
    /\ isPaused \/ ~isMobile
    /\ gameStats' = SurrenderStats(gameStats)
    /\ timerRef' = NULL
    /\ bubblePos' = NULL
    /\ isPaused' = FALSE
    /\ UNCHANGED <<settings, isMobile, spawnTimeouts>>
    /\ Render(FALSE)

\* a pending setTimeout(spawnBubble) fires, App.tsx:225-247; nothing
\* cancels it and spawnBubble does not look at isPlaying.
spawnBubble(closure) ==
    /\ BagIn(closure, spawnTimeouts)
    /\ spawnTimeouts' = spawnTimeouts (-) SetToBag({closure})
    /\ bubblePos' = POS
    /\ Place(closure)
    /\ UNCHANGED <<settings, gameStats, isPaused, isMobile, timerRef>>
    /\ Render(TRUE)

\* mutant: the floor of the lifespan is taken as its ceiling
LifespanMin(level) == Min(600, 3000 - level * 150)

\* maxLifespan of the expiry poll, App.tsx:320
Lifespan(level) == Max(600, 3000 - level * 150)

\* the poll's test, App.tsx:322
Expired == now - bubbleSpawnTime > Lifespan(gameStats.level)

\* the expiry effect has an interval running, App.tsx:315
PollActive ==
    /\ settings.gameMode = SURVIVAL
    /\ gameStats.isPlaying /\ ~isPaused /\ bubblePos # NULL

\* the expiry poll with its clock test, App.tsx:317-327
pollExpiry == Expired /\ expire

\* handleHit with the reaction time it computes, App.tsx:413-414
timedHit == handleHit(now - lastClickTime)

\* Time passes.  A running poll fires within 100 ms of the bubble's expiry,
\* so the clock does not step over it.
advance(d) ==
    /\ now + d <= MaxNow
    /\ ~(PollActive /\ Expired)
    /\ now' = now + d
    /\ pausedTime' = IF isPaused THEN pausedTime + d ELSE pausedTime
    /\ UNCHANGED <<settings, gameStats, bubblePos, isPaused, isMobile,
                   timerRef, spawnTimeouts, clickClosure, bubbleSpawnTime,
                   lastClickTime, savedRecords, completed, viewport, random,
                   position>>

\* Sidebar game mode buttons, part_001:110, 125.  The menu button is hidden
\* while playing (App.tsx:704).
setGameMode(mode) ==
    /\ ~gameStats.isPlaying
    /\ settings.gameMode # mode
    /\ settings' = [settings EXCEPT !.gameMode = mode]
    /\ UNCHANGED <<gameStats, bubblePos, isPaused, isMobile, timerRef,
                   spawnTimeouts>>
    /\ Render(FALSE)

\* Sidebar handleDifficultyChange, part_001:29-46
handleDifficultyChange(diff) ==
    /\ ~gameStats.isPlaying
    /\ settings.difficulty # diff
    /\ settings' = [settings EXCEPT
                      !.difficulty = diff,
                      !.bubbleSize = DifficultyPreset(diff).bubbleSize,
                      !.spawnDelay = DifficultyPreset(diff).spawnDelay]
    /\ UNCHANGED <<gameStats, bubblePos, isPaused, isMobile, timerRef,
                   spawnTimeouts>>
    /\ Render(FALSE)

\* Sidebar screen area buttons, part_001:148-151
setScreenMode(mode) ==
    /\ ~gameStats.isPlaying
    /\ settings.screenMode # mode
    /\ settings' = [settings EXCEPT !.screenMode = mode]
    /\ UNCHANGED <<gameStats, bubblePos, isPaused, isMobile, timerRef,
                   spawnTimeouts>>
    /\ Render(FALSE)

\* the window is resized: updateBoardDimensions (App.tsx:115-144) sets
\* boardRect; spawnBubble is re-created, handleGlobalClick and the expiry
\* effect are not, and bubblePos is left as it is.
resize(vp) ==
    /\ viewport # vp
    /\ viewport' = vp
    /\ UNCHANGED <<settings, gameStats, bubblePos, isPaused, isMobile,
                   timerRef, spawnTimeouts, clickClosure, now,
                   bubbleSpawnTime, lastClickTime, pausedTime, savedRecords,
                   completed, random, position>>

\* the environment settles what the next two Math.random() return
roll(r) ==
    /\ random # r
    /\ random' = r
    /\ UNCHANGED <<settings, gameStats, bubblePos, isPaused, isMobile,
                   timerRef, spawnTimeouts, clickClosure, now,
                   bubbleSpawnTime, lastClickTime, pausedTime, savedRecords,
                   completed, viewport, position>>

----------------------------------------------------------------------------
(* Specifications *)

Events(reactions, maxHits, maxMisses) ==
    \/ startGame
    \/ tick
    \/ togglePause
    \/ handleLockChange
    \/ \E r \in reactions : gameStats.hits < maxHits /\ handleHit(r)
    \/ gameStats.misses < maxMisses /\ handleMiss
    \/ gameStats.misses < maxMisses /\ expire
    \/ handleSurrender
    \/ \E closure \in BagToSet(spawnTimeouts) : spawnBubble(closure)

Next ==
    /\ \/ Events(ReactionTimes, MaxHits, MaxMisses)
       \/ \E m \in GameMode : setGameMode(m)
       \/ \E d \in Difficulty : handleDifficultyChange(d)
    /\ UNCHANGED <<args, res>>

Spec == Init /\ [][Next]_vars

\* Long sessions with fixed settings and one reaction time.
NextLong ==
    /\ Events({400}, MaxHitsLong, MaxMissesLong)
    /\ UNCHANGED <<args, res>>

SpecLong == Init /\ [][NextLong]_vars

\* Sessions on a clock: the expiry poll and the reaction time read Date.now().
NextClock ==
    /\ \/ startGame
       \/ tick
       \/ togglePause
       \/ handleLockChange
       \/ gameStats.hits < MaxHitsClock /\ timedHit
       \/ gameStats.misses < MaxMissesClock /\ handleMiss
       \/ gameStats.misses < MaxMissesClock /\ pollExpiry
       \/ handleSurrender
       \/ \E closure \in BagToSet(spawnTimeouts) : spawnBubble(closure)
       \/ \E d \in {1500} : advance(d)
    /\ UNCHANGED <<args, res>>

SpecClock == Init /\ [][NextClock]_vars

\* Sessions on a board: windows of several sizes, the three screen areas,
\* both ends of Math.random().
NextBoard ==
    /\ \/ startGame
       \/ \E r \in ReactionTimes :
            gameStats.hits < MaxHitsBoard /\ handleHit(r)
       \/ gameStats.misses < MaxMissesBoard /\ expire
       \/ handleSurrender
       \/ \E closure \in BagToSet(spawnTimeouts) : spawnBubble(closure)
       \/ \E d \in Difficulty : handleDifficultyChange(d)
       \/ \E mode \in ScreenMode : setScreenMode(mode)
       \/ \E vp \in { [w |-> 1000, h |-> 700], [w |-> 600, h |-> 500], [w |-> 40, h |-> 40] } : resize(vp)
       \/ \E r \in { <<0, 0>>, <<RandomDen - 1, RandomDen - 1>> } : roll(r)
    /\ UNCHANGED <<args, res>>

SpecBoard == Init /\ [][NextBoard]_vars

\* The scoring function on its own: two reaction times, one bubble size and
\* one combo are drawn, then both hits are scored.
NotTie(reactionTime, bubbleSize, combo) ==
    LET n == (100 + SpeedBonus(reactionTime)) * 150 * (10 + combo)
        d == 10 * bubbleSize
    IN  (2 * n) % (2 * d) # d


InitPoints ==
    /\ settings = DEFAULT_SETTINGS
    /\ gameStats = InitialStats
    /\ bubblePos = NULL
    /\ isPaused = FALSE
    /\ isMobile = FALSE
    /\ timerRef = NULL
    /\ spawnTimeouts = EmptyBag
    /\ viewport = InitialViewport
    /\ clickClosure = [combo |-> 0, level |-> 1, boardRect |-> CurrentRect]
    /\ now = 0
    /\ bubbleSpawnTime = 0
    /\ lastClickTime = 0
    /\ pausedTime = 0
    /\ savedRecords = <<>>
    /\ completed = {}
    /\ random = <<0, 0>>
    /\ position = NullPosition
    /\ args \in ({ a \in [r1 : ReactionGrid, r2 : ReactionGrid, bubbleSize : { DifficultyPreset(d).bubbleSize : d \in {EASY, NORMAL, HARD} }, combo : 0..MaxCombo] : /\ NotTie(a.r1, a.bubbleSize, a.combo) /\ NotTie(a.r2, a.bubbleSize, a.combo) })
    /\ res = <<>>

scoreHits ==
    /\ res = <<>>
    /\ res' = << Points(args.r1, args.bubbleSize, args.combo),
                 Points(args.r2, args.bubbleSize, args.combo) >>
    /\ UNCHANGED <<args, gameVars>>


SpecPoints == InitPoints /\ [][(scoreHits)]_vars

\* The record of the game-end effect on its own: final stats and a duration
\* are drawn, then the record is built.  A session is saved only with
\* hits > 0, and maxCombo never exceeds hits.


FinalStats(a) ==
    [InitialStats EXCEPT !.hits = a.hits, !.misses = a.misses,
                         !.maxCombo = a.maxCombo, !.score = a.score]

FinalSettings(a) == [DEFAULT_SETTINGS EXCEPT !.duration = a.duration]

InitRecord ==
    /\ settings = DEFAULT_SETTINGS
    /\ gameStats = InitialStats
    /\ bubblePos = NULL
    /\ isPaused = FALSE
    /\ isMobile = FALSE
    /\ timerRef = NULL
    /\ spawnTimeouts = EmptyBag
    /\ viewport = InitialViewport
    /\ clickClosure = [combo |-> 0, level |-> 1, boardRect |-> CurrentRect]
    /\ now = 0
    /\ bubbleSpawnTime = 0
    /\ lastClickTime = 0
    /\ pausedTime = 0
    /\ savedRecords = <<>>
    /\ completed = {}
    /\ random = <<0, 0>>
    /\ position = NullPosition
    /\ args \in ({ a \in [hits : {1, 10, 11, 19, 20, 21, 30, 57, 60, 240, 241}, misses : {0, 1, 3}, maxCombo : {0, 1, 29, 30, 31}, score : {0, 49999, 50000, 50001}, duration : {5, 10, 30, 60, 120}] : a.maxCombo <= a.hits })
    /\ res = <<>>

buildRecord ==
    /\ res = <<>>
    /\ res' = << Record(FinalStats(args), FinalSettings(args)) >>
    /\ UNCHANGED <<args, gameVars>>


SpecRecord == InitRecord /\ [][(buildRecord)]_vars

----------------------------------------------------------------------------
(* Steps, as seen on the session counters *)

HitStep == gameStats'.hits = gameStats.hits + 1
MissStep == gameStats'.misses = gameStats.misses + 1
Running(mode) == settings.gameMode = mode /\ gameStats.isPlaying
ExpiryStep == MissStep /\ bubbleSpawnTime' # bubbleSpawnTime

----------------------------------------------------------------------------
(* Properties *)

\* C1: in a TimeTrial session timeLeft is never negative and the session is
\* playing exactly while timeLeft > 0: a step that ends the session leaves
\* timeLeft = 0 (the last tick does both at once), and a miss never ends it.
C1_TimeTrialCountdown ==
    /\ [](gameStats.timeLeft >= 0)
    /\ [](Running(TIME_TRIAL) => gameStats.timeLeft > 0)
    /\ [][Running(TIME_TRIAL) =>
            /\ (~gameStats'.isPlaying => gameStats'.timeLeft = 0)
            /\ (gameStats'.timeLeft = 0 => ~gameStats'.isPlaying)
            /\ (MissStep => gameStats'.isPlaying)]_vars

\* a TimeTrial session that took four misses (lives below 0) and then ended
C1_Witness ==
    /\ settings.gameMode = TIME_TRIAL
    /\ ~gameStats.isPlaying
    /\ gameStats.timeLeft = 0
    /\ gameStats.misses >= 4
    /\ gameStats.lives < 0

\* C2: in a Survival session lives never goes up, a miss or an expiry takes
\* exactly 1, nothing else changes it, and the session ends in the very step
\* in which lives reaches 0 (a miss ends the session only then).
C2_SurvivalLives ==
    /\ [](Running(SURVIVAL) => gameStats.lives > 0)
    /\ [][Running(SURVIVAL) =>
            /\ gameStats'.lives <= gameStats.lives
            /\ (MissStep => gameStats'.lives = gameStats.lives - 1)
            /\ (gameStats'.lives # gameStats.lives => MissStep)
            /\ (gameStats'.lives = 0 => ~gameStats'.isPlaying)
            /\ (MissStep /\ ~gameStats'.isPlaying => gameStats'.lives = 0)]_vars

\* a Survival session ended by its third miss
C2_Witness ==
    /\ settings.gameMode = SURVIVAL
    /\ ~gameStats.isPlaying
    /\ gameStats.lives = 0
    /\ gameStats.misses = 3

\* C3: lives is within 0..3 in every reachable state, in both game modes.
C3_LivesInRange == gameStats.lives \in 0..InitialLives

\* C4: after every miss (a missed click or an expiry, the one that ends a
\* Survival session included) combo is 0.
C4_MissResetsCombo == [][MissStep => gameStats'.combo = 0]_vars

\* C5: score is never negative.
C5_ScoreNonNegative == gameStats.score >= 0

\* misses taken with less than the penalty left on the score
C5_Witness ==
    /\ gameStats.isPlaying
    /\ gameStats.misses >= 2
    /\ gameStats.score = 0

\* C6: every miss, the one that ends a Survival session included, changes
\* score to max(0, score - 50) and adds exactly 1 to misses.
C6_MissPenalty ==
    [][MissStep =>
         /\ gameStats'.score = Max(0, gameStats.score - 50)
         /\ gameStats'.misses = gameStats.misses + 1]_vars

C8_HitPoints ==
    [][HitStep =>
         \E r \in ReactionTimes :
            gameStats'.score =
              gameStats.score + Points(r, settings.bubbleSize, gameStats.combo)]_vars

\* C9: for equal bubbleSize and combo, r1 <= r2 implies
\* points(r1) >= points(r2), and points are never negative.
C9_PointsMonotonic ==
    res # <<>> =>
        /\ res[1] >= 0
        /\ res[2] >= 0
        /\ (args.r1 <= args.r2 => res[1] >= res[2])

\* a slower hit that scored strictly less
C9_Witness ==
    /\ res # <<>>
    /\ args.r1 < args.r2
    /\ res[1] > res[2]

\* C10: start, from Idle or from an ended session, resets the stats, sets
\* timeLeft to settings.duration, isPlaying and not isPaused, and starts the
\* countdown only in TimeTrial.
C10_StartResets ==
    [][(~gameStats.isPlaying /\ gameStats'.isPlaying) =>
         /\ gameStats' = [score |-> 0, combo |-> 0, maxCombo |-> 0,
                          hits |-> 0, misses |-> 0, level |-> 1, lives |-> 3,
                          timeLeft |-> settings.duration, isPlaying |-> TRUE]
         /\ isPaused' = FALSE
         /\ (timerRef' = INTERVAL <=> settings.gameMode = TIME_TRIAL)]_vars

\* a Survival session just started while the previous session's respawn is
\* still pending next to its own first spawn
C10_Witness ==
    /\ Running(SURVIVAL)
    /\ gameStats.hits + gameStats.misses = 0
    /\ gameStats.timeLeft = settings.duration
    /\ timerRef = NULL
    /\ Pending = 2

\* C11: pause and resume leave the session stats (score, combo, maxCombo,
\* hits, misses, lives, level, timeLeft) unchanged, and while the session
\* stays paused no step (tick, expiry, spawn) changes the stats or the
\* target.
C11_PauseFrame ==
    [][/\ (gameStats.isPlaying /\ gameStats'.isPlaying /\ isPaused' # isPaused
            => gameStats' = gameStats)
       /\ (isPaused /\ isPaused' => UNCHANGED <<gameStats, bubblePos>>)]_vars

\* C12: paused time is not caught up on resume: a bubble is reported
\* expired only when the time it was shown unpaused exceeds its lifespan,
\* and the reaction time that scores a hit does not count the time spent
\* paused since the bubble was spawned.
C12_NoCatchUp ==
    [][/\ (ExpiryStep =>
             now - bubbleSpawnTime - pausedTime > Lifespan(gameStats.level))
       /\ (HitStep =>
             gameStats'.score = gameStats.score +
               Points(now - lastClickTime - pausedTime, settings.bubbleSize,
                      HitCombo))]_vars

\* the session is Idle, Paused or Ended
NotRunning == ~gameStats.isPlaying \/ isPaused

\* C13: events that are invalid in the current state do nothing: the
\* countdown runs only while the session is running, no step taken while it
\* is not running (Idle, Paused, Ended) changes the stats except a start or
\* a surrender from Paused, so that a hit, a miss, an expiry or a tick is a
\* no-op there, and while not playing nothing changes isPaused or the
\* countdown or schedules a spawn unless the step starts a session.
C13_InvalidNoOps ==
    /\ [](timerRef = INTERVAL => gameStats.isPlaying /\ ~isPaused)
    /\ [][NotRunning =>
            \/ gameStats' = gameStats
            \/ ~gameStats.isPlaying /\ gameStats'.isPlaying
            \/ /\ isPaused
               /\ gameStats' = [gameStats EXCEPT !.isPlaying = FALSE,
                                                 !.timeLeft = 0]]_vars
    /\ [][~gameStats.isPlaying /\ ~gameStats'.isPlaying =>
            /\ isPaused' = isPaused
            /\ timerRef' = timerRef
            /\ spawnTimeouts' \sqsubseteq spawnTimeouts]_vars

\* a paused session with a bubble on the board, a hit and a miss behind it
C13_Witness ==
    /\ gameStats.isPlaying /\ isPaused
    /\ bubblePos # NULL
    /\ gameStats.hits >= 1
    /\ gameStats.misses >= 1

\* C14: a surrender, from Running or from Paused and in either mode, ends
\* the session (isPlaying and isPaused both false) and leaves score, combo,
\* maxCombo, hits, misses, lives and level as they were.  A surrender is
\* the one step that changes the stats of a paused session, and the one
\* step besides the last tick that ends a running session without a miss.
C14_SurrenderFrame ==
    [][(/\ gameStats.isPlaying
        /\ gameStats' # gameStats
        /\ isPaused \/ (~gameStats'.isPlaying /\ ~MissStep))
       => /\ ~gameStats'.isPlaying
          /\ ~isPaused'
          /\ \A f \in {"score", "combo", "maxCombo", "hits", "misses",
                        "lives", "level"} : gameStats'[f] = gameStats[f]]_vars

\* a Survival session given up with lives left, after a hit and a miss
C14_Witness ==
    /\ ~gameStats.isPlaying /\ ~isPaused
    /\ Len(savedRecords) = 1
    /\ savedRecords[1].mode = SURVIVAL
    /\ gameStats.lives = 2
    /\ gameStats.hits >= 1
    /\ gameStats.combo >= 1

\* C15: whenever a session with at least one hit or miss ends, a record of
\* it is saved; this covers a Survival session that lost its three lives
\* without a hit.
C15_EndSaves ==
    [][(gameStats.isPlaying /\ ~gameStats'.isPlaying
          /\ gameStats'.hits + gameStats'.misses >= 1)
       => Len(savedRecords') = 1]_vars

\* C16: a session writes at most one record and evaluates the challenges
\* at most once: the record is written, and challenges are marked, only in
\* the step in which the session ends, and no step taken after the end
\* (a late timer, a click, a settings change) writes again.
C16_EndOnce ==
    /\ [](Len(savedRecords) <= 1)
    /\ [][savedRecords' # savedRecords =>
            \/ ~gameStats.isPlaying /\ gameStats'.isPlaying
                  /\ savedRecords' = <<>>
            \/ gameStats.isPlaying /\ ~gameStats'.isPlaying
                  /\ savedRecords = <<>>
                  /\ savedRecords' = <<Record(gameStats', settings)>>]_vars
    /\ [][completed' # completed =>
            gameStats.isPlaying /\ ~gameStats'.isPlaying]_vars
    /\ [][~gameStats.isPlaying /\ ~gameStats'.isPlaying =>
            UNCHANGED <<savedRecords, completed>>]_vars

\* an ended TimeTrial session with its record, rendered again after the end
\* because a spawn timeout of the session fired
C16_Witness ==
    /\ ~gameStats.isPlaying
    /\ Len(savedRecords) = 1
    /\ savedRecords[1].mode = TIME_TRIAL
    /\ bubblePos = POS

\* C17: the accuracy shown during play is 100 before the first click and
\* hits / (hits + misses) * 100 after it, the accuracy of a saved record is
\* the accuracy shown for the stats the session ended with, and both lie in
\* 0..100.
C17_Accuracy ==
    LET total == gameStats.hits + gameStats.misses
        shown == DisplayAccuracy(gameStats)
    IN  /\ shown.den > 0
        /\ total = 0 => shown.num = 100 * shown.den
        /\ total > 0 => shown.num * total = gameStats.hits * 100 * shown.den
        /\ 0 <= shown.num /\ shown.num <= 100 * shown.den
        /\ \A i \in DOMAIN savedRecords :
              LET saved == savedRecords[i].accuracy
              IN  /\ saved.den > 0
                  /\ saved.num * shown.den = shown.num * saved.den
                  /\ 0 <= saved.num /\ saved.num <= 100 * saved.den

\* a record saved with two hits and one miss: accuracy 200/3
C17_Witness ==
    /\ ~gameStats.isPlaying
    /\ Len(savedRecords) = 1
    /\ gameStats.hits = 2 /\ gameStats.misses = 1
    /\ savedRecords[1].accuracy = [num |-> 200, den |-> 3]

\* C18: the tags of a saved record are exactly the labels whose threshold
\* holds on the final stats (accuracy >= 95: Cirujano; maxCombo >= 30:
\* Ninja; score > 50000: Leyenda; hits / max(duration, 1) > 2: Flash), in
\* that order.
C18_Tags ==
    res # <<>> =>
      LET total == args.hits + args.misses
          Holds(label) ==
            CASE label = "Cirujano" -> args.hits * 100 >= 95 * total
              [] label = "Ninja" -> args.maxCombo >= 30
              [] label = "Leyenda" -> args.score > 50000
              [] label = "Flash" -> args.hits > 2 * Max(args.duration, 1)
      IN  res[1].tags =
            SelectSeq(<<"Cirujano", "Ninja", "Leyenda", "Flash">>, Holds)

\* a record that earned the four tags
C18_Witness ==
    /\ res # <<>>
    /\ res[1].tags = <<"Cirujano", "Ninja", "Leyenda", "Flash">>

\* C19: while the session is paused and after it has ended (surrender,
\* countdown at 0, no life left) no timer is pending: not the countdown,
\* not the expiry poll, not a spawn or respawn timeout.
C19_TimersCancelled ==
    NotRunning => timerRef = NULL /\ ~PollActive /\ Pending = 0

\* C20: once a session has ended, nothing changes the stats or the target
\* until the next start; a timer of the ended session does not.
C20_EndedFrozen ==
    [][~gameStats.isPlaying /\ ~gameStats'.isPlaying =>
         UNCHANGED <<gameStats, bubblePos>>]_vars

\* C21: every step that ends a session leaves no target: the last tick, a
\* surrender, and the Survival miss that takes the last life, be it a
\* missed click or an expiry with its forced respawn.
C21_EndClearsTarget ==
    [][gameStats.isPlaying /\ ~gameStats'.isPlaying =>
         bubblePos' = NULL]_vars


\* C22: whenever a target is live, its square of the current effective size
\* (bubbleSize in TimeTrial, max(30, bubbleSize - 2 * level) in Survival)
\* lies inside the current play area, area.x <= x <= area.x + area.width -
\* size and likewise for y, or sits at area.x (area.y) when the area is
\* smaller than the target.
C22_TargetInside ==
    (gameStats.isPlaying /\ bubblePos # NULL) =>
      LET area == BoardRect(viewport, settings.screenMode)
          size == IF settings.gameMode = SURVIVAL
                    THEN Max(30, settings.bubbleSize - 2 * gameStats.level)
                    ELSE settings.bubbleSize
          Inside(p, lo, extent) ==
            IF extent >= size
              THEN lo * RandomDen <= p /\ p <= (lo + extent - size) * RandomDen
              ELSE p = lo * RandomDen
      IN  /\ Inside(position[1], area.x, area.width)
          /\ Inside(position[2], area.y, area.height)

C24_RespawnDelay ==
    [][HitStep =>
         LET delay == IF settings.gameMode = TIME_TRIAL
                        THEN settings.spawnDelay
                        ELSE Max(0, 500 - 50 * gameStats'.level)
         IN  /\ NextDelay = delay
             /\ delay > 0 =>
                   bubblePos' = NULL /\ Pending' = Pending + 1
             /\ delay = 0 =>
                   bubblePos' # NULL /\ spawnTimeouts' = spawnTimeouts]_vars


\* C25: the target that a spawn timeout produces is placed from the level,
\* the settings and the play area of the moment the timeout fires, not
\* from those of the moment it was scheduled.
C25_SpawnReadsCurrent ==
    [][(Pending' = Pending - 1) /\ bubblePos' # NULL =>
         position' = SpawnAt(SpawnClosure(gameStats.level, CurrentRect))]_vars

----------------------------------------------------------------------------
(* Stored settings: validateSettings, storageService.ts:22-50 *)

CUSTOM == "Custom"
DifficultyValues == {EASY, NORMAL, HARD, CUSTOM}
CrosshairTypes == {"dot", "cross", "circle", "plus"}

\* A JavaScript value: its typeof, its number and its string.  null is the
\* object "null", NaN the number "NaN", an array the object "array".
\* sensitivity is counted in tenths, every other number in units.
JSValue(type, num, str) == [type |-> type, num |-> num, str |-> str]
Undefined == JSValue("undefined", 0, "")
Null == JSValue("object", 0, "null")
NaN == JSValue("number", 0, "NaN")
Num(n) == JSValue("number", n, "")
Str(s) == JSValue("string", 0, s)
Bool(b) == JSValue("boolean", IF b THEN 1 ELSE 0, "")

isNaN(val) == val.type = "number" /\ val.str = "NaN"

\* !val is false
Truthy(val) ==
    CASE val.type = "undefined" -> FALSE
      [] val.type = "object" -> val.str # "null"
      [] val.type = "number" -> val.num # 0 /\ ~isNaN(val)
      [] val.type = "string" -> val.str # ""
      [] val.type = "boolean" -> val.num = 1

FieldNames ==
    {"gameMode", "screenMode", "difficulty", "bubbleSize", "spawnDelay",
     "duration", "soundEnabled", "sensitivity", "crosshairType",
     "crosshairColor"}

\* data: a value and what reading each property of it gives
Object(fields) == [value |-> JSValue("object", 0, ""), fields |-> fields]
Array == [value |-> JSValue("object", 0, "array"),
          fields |-> [f \in FieldNames |-> Undefined]]
Primitive(val) == [value |-> val, fields |-> [f \in FieldNames |-> Undefined]]

\* The characters of the colour strings tried.
Characters(s) ==
    CASE s = "#6366f1" -> <<"#", "6", "3", "6", "6", "f", "1">>
      [] s = "#ef4444" -> <<"#", "e", "f", "4", "4", "4", "4">>
      [] s = "#fff" -> <<"#", "f", "f", "f">>
      [] s = "red" -> <<"r", "e", "d">>
      [] s = "#6366f1ff" -> <<"#", "6", "3", "6", "6", "f", "1", "f", "f">>
      [] s = "ab" -> <<"a", "b">>
      [] s = "" -> <<>>

DefaultSettingsObject ==
    Object([gameMode |-> Str(DEFAULT_SETTINGS.gameMode),
            screenMode |-> Str(DEFAULT_SETTINGS.screenMode),
            difficulty |-> Str(DEFAULT_SETTINGS.difficulty),
            bubbleSize |-> Num(DEFAULT_SETTINGS.bubbleSize),
            spawnDelay |-> Num(DEFAULT_SETTINGS.spawnDelay),
            duration |-> Num(DEFAULT_SETTINGS.duration),
            soundEnabled |-> Bool(TRUE),
            sensitivity |-> Num(10),
            crosshairType |-> Str("dot"),
            crosshairColor |-> Str("#6366f1")])

safeEnum(val, enumObj, defaultVal) ==
    IF val.type = "string" /\ val.str \in enumObj THEN val ELSE defaultVal

\* Math.max(min, Math.min(max, NaN)) is NaN
safeNumNoNaN(val, min, max, defaultVal) ==
    IF val.type # "number" THEN defaultVal
    ELSE IF isNaN(val) THEN NaN
    ELSE Num(Max(min, Min(max, val.num)))

\* Math.min(min, Math.max(max, val))
safeNumSwapped(val, min, max, defaultVal) ==
    IF val.type # "number" \/ isNaN(val) THEN defaultVal
    ELSE Num(Min(min, Max(max, val.num)))

safeNum(val, min, max, defaultVal) ==
    IF val.type # "number" \/ isNaN(val) THEN defaultVal
    ELSE Num(Max(min, Min(max, val.num)))

validateSettings(data) ==
    IF ~Truthy(data.value) \/ data.value.type # "object"
      THEN DefaultSettingsObject
      ELSE
        LET in == data.fields
            def == DefaultSettingsObject.fields
        IN  Object(
              [gameMode |-> safeEnum(in.gameMode, GameMode, def.gameMode),
               screenMode |->
                 safeEnum(in.screenMode, ScreenMode, def.screenMode),
               difficulty |->
                 safeEnum(in.difficulty, DifficultyValues, def.difficulty),
               bubbleSize |-> safeNum(in.bubbleSize, 10, 300, def.bubbleSize),
               spawnDelay |-> safeNum(in.spawnDelay, 0, 5000, def.spawnDelay),
               duration |-> safeNum(in.duration, 5, 3600, def.duration),
               soundEnabled |->
                 IF in.soundEnabled.type = "boolean"
                   THEN in.soundEnabled ELSE def.soundEnabled,
               sensitivity |->
                 safeNum(in.sensitivity, 1, 100, def.sensitivity),
               crosshairType |->
                 IF in.crosshairType.type = "string"
                      /\ in.crosshairType.str \in CrosshairTypes
                   THEN in.crosshairType ELSE def.crosshairType,
               crosshairColor |->
                 IF /\ in.crosshairColor.type = "string"
                    /\ Len(Characters(in.crosshairColor.str)) > 0
                    /\ Characters(in.crosshairColor.str)[1] = "#"
                    /\ Len(Characters(in.crosshairColor.str)) <= 7
                   THEN in.crosshairColor ELSE def.crosshairColor])

\* JSON.parse(JSON.stringify(data)): NaN is written as null, a property
\* that is undefined is not written and reads as undefined afterwards.
JSONValue(val) == IF isNaN(val) THEN Null ELSE val

JSONRoundTrip(data) ==
    [value |-> JSONValue(data.value),
     fields |-> [f \in FieldNames |-> JSONValue(data.fields[f])]]

\* Values tried for data: what is not an object, an array, and objects
\* whose properties are missing, of the wrong type, NaN, below, inside or
\* above their range.
FieldInputs ==
    [gameMode : {Str(TIME_TRIAL), Str(SURVIVAL), Str("Zen")},
     screenMode : {Str(FULL), Undefined},
     difficulty : {Str(CUSTOM), Num(3)},
     bubbleSize : {Undefined, Str("60"), NaN, Num(5), Num(150), Num(301)},
     spawnDelay : {Num(-1), Num(0), Num(5001)},
     duration : {Num(4), Num(3600), Num(3601)},
     soundEnabled : {Bool(TRUE), Bool(FALSE), Str("true")},
     sensitivity : {Num(0), Num(25), Num(101)},
     crosshairType : {Str("plus"), Str("star")},
     crosshairColor : {Str("#fff"), Str("red"), Str("#6366f1ff")}]


InitValidate ==
    /\ settings = DEFAULT_SETTINGS
    /\ gameStats = InitialStats
    /\ bubblePos = NULL
    /\ isPaused = FALSE
    /\ isMobile = FALSE
    /\ timerRef = NULL
    /\ spawnTimeouts = EmptyBag
    /\ viewport = InitialViewport
    /\ clickClosure = [combo |-> 0, level |-> 1, boardRect |-> CurrentRect]
    /\ now = 0
    /\ bubbleSpawnTime = 0
    /\ lastClickTime = 0
    /\ pausedTime = 0
    /\ savedRecords = <<>>
    /\ completed = {}
    /\ random = <<0, 0>>
    /\ position = NullPosition
    /\ args \in ({ Object(fields) : fields \in FieldInputs } \cup { Primitive(val) : val \in {Null, Undefined, NaN, Num(0), Num(5), Str(""), Str("{}"), Bool(FALSE), Bool(TRUE)} } \cup { Array, JSONRoundTrip(DefaultSettingsObject) })
    /\ res = <<>>

\* validateSettings(data)
validate ==
    /\ res = <<>>
    /\ res' = << validateSettings(args) >>
    /\ UNCHANGED <<args, gameVars>>

\* validateSettings of what validateSettings returned
revalidate ==
    /\ Len(res) = 1
    /\ res' = Append(res, validateSettings(res[1]))
    /\ UNCHANGED <<args, gameVars>>


SpecValidate == InitValidate /\ [][(validate \/ revalidate)]_vars

\* data is an object or an array, so that its properties are read
IsObject(data) == Truthy(data.value) /\ data.value.type = "object"

\* C26: validateSettings returns for every input, and what it returns has
\* gameMode, screenMode, difficulty and crosshairType in their enums,
\* bubbleSize in [10, 300], spawnDelay in [0, 5000], duration in [5, 3600],
\* sensitivity in [0.1, 10.0] and a boolean soundEnabled.
C26_ValidateInRange ==
    /\ res = <<>> => ENABLED validate
    /\ \A i \in 1..Len(res) :
         LET out == res[i].fields
             Within(val, lo, hi) ==
               val.type = "number" /\ ~isNaN(val)
                 /\ lo <= val.num /\ val.num <= hi
             OneOf(val, enum) == val.type = "string" /\ val.str \in enum
         IN  /\ IsObject(res[i])
             /\ OneOf(out.gameMode, {"Contrarreloj", "Supervivencia"})
             /\ OneOf(out.screenMode,
                      {"Pantalla Completa", "Pizarra (Estándar)", "Compacto"})
             /\ OneOf(out.difficulty, {"Easy", "Normal", "Hard", "Custom"})
             /\ OneOf(out.crosshairType, {"dot", "cross", "circle", "plus"})
             /\ Within(out.bubbleSize, 10, 300)
             /\ Within(out.spawnDelay, 0, 5000)
             /\ Within(out.duration, 5, 3600)
             /\ Within(out.sensitivity, 1, 100)
             /\ out.soundEnabled.type = "boolean"

\* an object with a NaN, a missing, a wrong-typed and an out-of-range
\* property has been validated
C26_Witness ==
    /\ Len(res) = 1
    /\ IsObject(args)
    /\ args.fields.bubbleSize = NaN
    /\ args.fields.screenMode = Undefined
    /\ args.fields.soundEnabled = Str("true")
    /\ args.fields.duration = Num(3601)
    /\ args.fields.gameMode = Str("Zen")

\* C27: validating what validateSettings returned changes nothing, and
\* validating the default settings read back from their JSON text gives
\* the default settings.
C27_ValidateIdempotent ==
    /\ Len(res) = 2 => res[2] = res[1]
    /\ Len(res) >= 1 /\ args = JSONRoundTrip(DefaultSettingsObject) =>
         res[1] = DefaultSettingsObject

\* an input that validation changed has been validated twice
C27_Witness ==
    /\ Len(res) = 2
    /\ IsObject(args)
    /\ args.fields.bubbleSize = Num(301)
    /\ args.fields.sensitivity = Num(0)
    /\ res[1] # args

\* C28: each property is validated by itself: one that is missing, of the
\* wrong type, NaN or outside its range comes back as its default (a
\* bubbleSize of 301 or of 5 as 60), every other one as it was given.
C28_FieldDefaults ==
    Len(res) >= 1 /\ IsObject(args) =>
      LET in == args.fields
          out == res[1].fields
          def == DefaultSettingsObject.fields
          WellFormedNum(val, lo, hi) ==
            val.type = "number" /\ ~isNaN(val)
              /\ lo <= val.num /\ val.num <= hi
          NumField(f, lo, hi) ==
            out[f] = IF WellFormedNum(in[f], lo, hi) THEN in[f] ELSE def[f]
          EnumField(f, enum) ==
            out[f] = IF in[f].type = "string" /\ in[f].str \in enum
                       THEN in[f] ELSE def[f]
      IN  /\ NumField("bubbleSize", 10, 300)
          /\ NumField("spawnDelay", 0, 5000)
          /\ NumField("duration", 5, 3600)
          /\ NumField("sensitivity", 1, 100)
          /\ EnumField("gameMode", GameMode)
          /\ EnumField("screenMode", ScreenMode)
          /\ EnumField("difficulty", DifficultyValues)
          /\ EnumField("crosshairType", CrosshairTypes)
          /\ out.soundEnabled =
               IF in.soundEnabled.type = "boolean"
                 THEN in.soundEnabled ELSE def.soundEnabled

----------------------------------------------------------------------------
(* Settings restored at mount and changed from the Sidebar *)

\* A GameSettings read from the object validateSettings returned, and the
\* same seen as data.
FromObject(data) ==
    LET in == data.fields
    IN  [gameMode |-> in.gameMode.str, screenMode |-> in.screenMode.str,
         difficulty |-> in.difficulty.str, bubbleSize |-> in.bubbleSize.num,
         spawnDelay |-> in.spawnDelay.num, duration |-> in.duration.num,
         soundEnabled |-> in.soundEnabled.num = 1,
         sensitivity |-> in.sensitivity.num,
         crosshairType |-> in.crosshairType.str,
         crosshairColor |-> in.crosshairColor.str]

ToObject(s) ==
    Object([gameMode |-> Str(s.gameMode), screenMode |-> Str(s.screenMode),
            difficulty |-> Str(s.difficulty),
            bubbleSize |-> Num(s.bubbleSize),
            spawnDelay |-> Num(s.spawnDelay), duration |-> Num(s.duration),
            soundEnabled |-> Bool(s.soundEnabled),
            sensitivity |-> Num(s.sensitivity),
            crosshairType |-> Str(s.crosshairType),
            crosshairColor |-> Str(s.crosshairColor)])

\* getStoredSettings, storageService.ts:82-91: item is << >> when the key
\* is absent or its text does not parse, else the parsed value.
getStoredSettings(item) ==
    IF item = <<>> THEN <<>> ELSE << validateSettings(item[1]) >>

\* the mount effect, App.tsx:80-85, over useState(DEFAULT_SETTINGS)
MountSettings(item) ==
    LET stored == getStoredSettings(item)
    IN  IF stored = <<>>
          THEN FromObject(DefaultSettingsObject)
          ELSE FromObject(stored[1])

\* Stored items tried: none, an array, and objects whose numbers are NaN
\* or outside their ranges.

\* a slider whose smallest value is below the validated range
SliderValuesLow(key) ==
    CASE key = "bubbleSize" -> {5, 150}
      [] key = "spawnDelay" -> {0, 1000}
      [] key = "duration" -> {10, 120}
      [] key = "sensitivity" -> {1, 50}

\* The two ends of each range input, part_001:243-246, 261-264, 288-291,
\* 307-310.
SliderValues(key) ==
    CASE key = "bubbleSize" -> {20, 150}
      [] key = "spawnDelay" -> {0, 1000}
      [] key = "duration" -> {10, 120}
      [] key = "sensitivity" -> {1, 50}

\* Sidebar handleSliderChange, part_001:48-55
handleSliderChange(key, value) ==
    /\ ~gameStats.isPlaying
    /\ settings[key] # value
    /\ settings' = [settings EXCEPT ![key] = value, !.difficulty = CUSTOM]
    /\ UNCHANGED <<gameStats, bubblePos, isPaused, isMobile, timerRef,
                   spawnTimeouts>>
    /\ Render(FALSE)

\* the sensitivity slider, part_001:248
setSensitivity(value) ==
    /\ ~gameStats.isPlaying
    /\ settings.sensitivity # value
    /\ settings' = [settings EXCEPT !.sensitivity = value]
    /\ UNCHANGED <<gameStats, bubblePos, isPaused, isMobile, timerRef,
                   spawnTimeouts>>
    /\ Render(FALSE)

\* the sound button, part_001:86
toggleSound ==
    /\ ~gameStats.isPlaying
    /\ settings' = [settings EXCEPT !.soundEnabled = ~settings.soundEnabled]
    /\ UNCHANGED <<gameStats, bubblePos, isPaused, isMobile, timerRef,
                   spawnTimeouts>>
    /\ Render(FALSE)

\* the crosshair type buttons, part_001:207
setCrosshairType(type) ==
    /\ ~gameStats.isPlaying
    /\ settings.crosshairType # type
    /\ settings' = [settings EXCEPT !.crosshairType = type]
    /\ UNCHANGED <<gameStats, bubblePos, isPaused, isMobile, timerRef,
                   spawnTimeouts>>
    /\ Render(FALSE)

\* the crosshair colour buttons, part_001:224
setCrosshairColor(color) ==
    /\ ~gameStats.isPlaying
    /\ settings.crosshairColor # color
    /\ settings' = [settings EXCEPT !.crosshairColor = color]
    /\ UNCHANGED <<gameStats, bubblePos, isPaused, isMobile, timerRef,
                   spawnTimeouts>>
    /\ Render(FALSE)

InitSettings ==
    /\ settings \in { MountSettings(item) : item \in ({ <<>>, << Array >> } \cup { << Object(fields) >> : fields \in { f \in FieldInputs : /\ f.gameMode = Str(TIME_TRIAL) /\ f.screenMode = Undefined /\ f.difficulty = Num(3) /\ f.bubbleSize \in {NaN, Num(5), Num(301)} /\ f.spawnDelay \in {Num(-1), Num(5001)} /\ f.duration = Num(3601) /\ f.soundEnabled = Str("true") /\ f.sensitivity \in {Num(0), Num(101)} /\ f.crosshairType = Str("star") /\ f.crosshairColor = Str("red") } }) }
    /\ gameStats = InitialStats
    /\ bubblePos = NULL
    /\ isPaused = FALSE
    /\ isMobile = FALSE
    /\ timerRef = NULL
    /\ spawnTimeouts = EmptyBag
    /\ viewport = InitialViewport
    /\ clickClosure = [combo |-> 0, level |-> 1, boardRect |-> CurrentRect]
    /\ now = 0
    /\ bubbleSpawnTime = 0
    /\ lastClickTime = 0
    /\ pausedTime = 0
    /\ savedRecords = <<>>
    /\ completed = {}
    /\ random = <<0, 0>>
    /\ position = NullPosition
    /\ args = <<>>
    /\ res = <<>>

NextSettings ==
    /\ \/ Pending < MaxPendingSettings /\ startGame
       \/ handleSurrender
       \/ \E closure \in BagToSet(spawnTimeouts) : spawnBubble(closure)
       \/ \E m \in GameMode : setGameMode(m)
       \/ \E d \in Difficulty : handleDifficultyChange(d)
       \/ \E key \in {"bubbleSize", "spawnDelay", "duration"} :
            \E value \in SliderValues(key) : handleSliderChange(key, value)
       \/ \E value \in SliderValues("sensitivity") : setSensitivity(value)
       \/ toggleSound
       \/ setCrosshairType("cross")
       \/ setCrosshairColor("#ef4444")
    /\ UNCHANGED <<args, res>>

SpecSettings == InitSettings /\ [][NextSettings]_vars

----------------------------------------------------------------------------
(* The stored scores: getStoredScores and saveScore,
   storageService.ts:52-74 *)

\* Scores of the records tried; a record is known here by its score.
ScoreRecord(score) == [score |-> score]

Repeat(n, record) == [i \in 1..n |-> record]

\* parsed.slice(0, 50) of the stored array
getStoredScores(stored) == SubSeq(stored, 1, Min(Len(stored), LedgerCap))

\* Array.prototype.sort with (a, b) => b.score - a.score: stable, so a
\* record stays before the later ones of the same score.
RECURSIVE SortByScore(_)
SortByScore(records) ==
    IF records = <<>>
      THEN <<>>
      ELSE LET first == Head(records)
               rest == SortByScore(Tail(records))
               Above(r) == r.score > first.score
               NotAbove(r) == r.score <= first.score
           IN  SelectSeq(rest, Above) \o <<first>> \o SelectSeq(rest, NotAbove)

\* [record, ...current].slice(0, 50).sort(...)
UpdatedScoresSliceFirst(current, record) ==
    LET all == <<record>> \o current
    IN  SortByScore(SubSeq(all, 1, Min(Len(all), LedgerCap)))

\* [record, ...current].sort(...).slice(0, 50), storageService.ts:69
UpdatedScores(current, record) ==
    LET sorted == SortByScore(<<record>> \o current)
    IN  SubSeq(sorted, 1, Min(Len(sorted), LedgerCap))

\* Stores at the start: empty, full of one score, full of two scores.

\* res is the stored array, args the bag of all records ever recorded
InitLedger ==
    /\ settings = DEFAULT_SETTINGS
    /\ gameStats = InitialStats
    /\ bubblePos = NULL
    /\ isPaused = FALSE
    /\ isMobile = FALSE
    /\ timerRef = NULL
    /\ spawnTimeouts = EmptyBag
    /\ viewport = InitialViewport
    /\ clickClosure = [combo |-> 0, level |-> 1, boardRect |-> CurrentRect]
    /\ now = 0
    /\ bubbleSpawnTime = 0
    /\ lastClickTime = 0
    /\ pausedTime = 0
    /\ savedRecords = <<>>
    /\ completed = {}
    /\ random = <<0, 0>>
    /\ position = NullPosition
    /\ res \in ({ <<>>, Repeat(LedgerCap, ScoreRecord(200)), Repeat(LedgerCap - 20, ScoreRecord(300)) \o Repeat(20, ScoreRecord(100)) })
    /\ args = [r \in { res[i] : i \in 1..Len(res) } |->
                 Cardinality({ i \in 1..Len(res) : res[i] = r })]

\* saveScore, storageService.ts:66-74
saveScore(record) ==
    /\ BagCardinality(args) < MaxRecords
    /\ res' = UpdatedScores(getStoredScores(res), record)
    /\ args' = args (+) SetToBag({record})
    /\ UNCHANGED gameVars


SpecLedger == InitLedger /\ [][(\E score \in ({100, 200, 300}) : saveScore(ScoreRecord(score)))]_vars

----------------------------------------------------------------------------
(* The best streak: getBestStreak, storageService.ts:76-80 *)

\* A stored record with its maxCombo; maxCombo is << >> in a record that
\* has none, else the 1-tuple of the number.
ComboRecord(score, maxCombo) == [score |-> score, maxCombo |-> maxCombo]

\* s.maxCombo || 0
OrZero(maxCombo) == IF maxCombo = <<>> THEN 0 ELSE maxCombo[1]

\* the maxCombo of the first record
getBestStreakOfFirst(stored) ==
    LET scores == getStoredScores(stored)
    IN  IF Len(scores) = 0 THEN 0 ELSE OrZero(scores[1].maxCombo)

\* Math.max(...numbers) of a non-empty array is its greatest member
getBestStreak(stored) ==
    LET scores == getStoredScores(stored)
        MathMax(numbers) ==
          CHOOSE m \in { numbers[i] : i \in 1..Len(numbers) } :
            \A i \in 1..Len(numbers) : numbers[i] <= m
    IN  IF Len(scores) = 0
          THEN 0
          ELSE MathMax([i \in 1..Len(scores) |-> OrZero(scores[i].maxCombo)])

\* Stores at the start: empty, three records of which one has no maxCombo,
\* and a full one whose last record holds the longest combo.

\* Records a session can save.

\* res is the stored array, args what the Sidebar was last given as
\* bestStreak (App.tsx:716) and the number of records saved
InitStreak ==
    /\ settings = DEFAULT_SETTINGS
    /\ gameStats = InitialStats
    /\ bubblePos = NULL
    /\ isPaused = FALSE
    /\ isMobile = FALSE
    /\ timerRef = NULL
    /\ spawnTimeouts = EmptyBag
    /\ viewport = InitialViewport
    /\ clickClosure = [combo |-> 0, level |-> 1, boardRect |-> CurrentRect]
    /\ now = 0
    /\ bubbleSpawnTime = 0
    /\ lastClickTime = 0
    /\ pausedTime = 0
    /\ savedRecords = <<>>
    /\ completed = {}
    /\ random = <<0, 0>>
    /\ position = NullPosition
    /\ res \in ({ <<>>, << ComboRecord(300, <<7>>), ComboRecord(200, <<>>), ComboRecord(100, <<12>>) >>, Repeat(LedgerCap - 1, ComboRecord(200, <<5>>)) \o << ComboRecord(100, <<50>>) >> })
    /\ args = [bestStreak |-> getBestStreak(res), saves |-> 0]

\* saveScore from the game-end effect, then the render that follows
\* setHighScores, App.tsx:386-406
saveScoreAndRender(record) ==
    /\ args.saves < MaxSaves
    /\ res' = UpdatedScores(getStoredScores(res), record)
    /\ args' = [bestStreak |-> getBestStreak(res'), saves |-> args.saves + 1]
    /\ UNCHANGED gameVars


SpecStreak == InitStreak /\ [][(\E record \in ({ ComboRecord(score, <<maxCombo>>) : score \in {50, 150, 300}, maxCombo \in {1, 60} }) : saveScoreAndRender(record))]_vars

\* C31: the best streak is 0 for an empty store and else the largest
\* maxCombo of the stored records, a record without maxCombo counting 0.
C31_BestStreak ==
    LET Combo(i) == IF res[i].maxCombo = <<>> THEN 0 ELSE res[i].maxCombo[1]
    IN  /\ Len(res) = 0 => args.bestStreak = 0
        /\ Len(res) > 0 =>
             /\ \A i \in 1..Len(res) : Combo(i) <= args.bestStreak
             /\ \E i \in 1..Len(res) : Combo(i) = args.bestStreak

\* the longest combo is held by a record that is not the first
C31_Witness ==
    /\ args.saves = 2
    /\ Len(res) = 5
    /\ args.bestStreak = 60
    /\ res[1].maxCombo = <<7>>

\* C40: saving a record never lowers the best streak, not even when the
\* store is full and a record is dropped.
C40_BestStreakGrows ==
    [][args'.saves = args.saves + 1 =>
         args'.bestStreak >= args.bestStreak]_vars

----------------------------------------------------------------------------
(* localStorage: the three keys, their readers and writers,
   storageService.ts:52-119 *)

\* What JSON.parse gives for a stored text: an array with its items, an
\* object that is no array, a number, a string or null.
JArray(items) == [type |-> "array", items |-> items, str |-> ""]
JObject == [type |-> "object", items |-> <<>>, str |-> ""]
JString(str) == [type |-> "string", items |-> <<>>, str |-> str]
JNull == [type |-> "null", items |-> <<>>, str |-> ""]

\* What a key holds: nothing (getItem gives null), a text that does not
\* parse, or the text of a value.
Absent(value) == [kind |-> "absent", value |-> value]
Malformed(value) == [kind |-> "malformed", value |-> value]
Json(value) == [kind |-> "json", value |-> value]

\* The outcome of a call: whether it threw to its caller, and the content
\* of the key afterwards.
Outcome(threw, content) == [threw |-> threw, content |-> content]

\* without the catch
Rethrow(outcome, old) == outcome

\* try { ... } catch (e) { console.error(...) }: what threw is logged and
\* nothing was written
TryCatch(outcome, old) ==
    IF outcome.threw THEN Outcome(FALSE, old) ELSE outcome

\* localStorage.setItem(key, text), which throws when the quota is exceeded
setItem(old, content, fails) ==
    IF fails THEN Outcome(TRUE, old) ELSE Outcome(FALSE, content)

\* getStoredScores, storageService.ts:52-64, from the content of the key
StoredScores(content) ==
    IF content.kind # "json" THEN <<>>
    ELSE IF content.value.type # "array" THEN <<>>
    ELSE getStoredScores(content.value.items)

\* saveScore, storageService.ts:66-74
SaveScoreOutcome(content, record, fails) ==
    TryCatch(setItem(content,
                     Json(JArray(UpdatedScores(StoredScores(content), record))),
                     fails),
             content)

\* getCompletedChallenges, storageService.ts:102-109: what was parsed is
\* returned as it is
getCompletedChallenges(content) ==
    IF content.kind = "json" THEN content.value ELSE JArray(<<>>)

RECURSIVE Unique(_)
Unique(items) ==
    IF items = <<>>
      THEN <<>>
      ELSE LET init == Unique(SubSeq(items, 1, Len(items) - 1))
               last == items[Len(items)]
           IN  IF \E i \in 1..Len(init) : init[i] = last
                 THEN init ELSE Append(init, last)

\* the members of new Set(value), in order
NewSet(value) ==
    CASE value.type = "array" -> Unique(value.items)
      [] value.type = "string" -> Unique(Characters(value.str))
      [] value.type = "null" -> <<>>

\* [...completed, id]
AddAlways(members, id) == Append(members, id)

\* completed.add(id)
Add(members, id) == Unique(Append(members, id))

\* markChallengeComplete, storageService.ts:111-119; new Set(value) throws
\* for what is not iterable: a number, an object
MarkChallengeOutcome(content, id, fails) ==
    LET got == getCompletedChallenges(content)
    IN  TryCatch(IF got.type \notin {"array", "string", "null"}
                   THEN Outcome(TRUE, content)
                   ELSE setItem(content,
                                Json(JArray(Add(NewSet(got), id))), fails),
                 content)

\* updateChallenges, App.tsx:70-77: completedIds.includes(c.id) throws
\* when completedIds is a number, an object or null
UpdateChallengesThrows(content) ==
    getCompletedChallenges(content).type \in {"number", "object", "null"}

\* Contents of the three keys at the start.



\* args holds the content of the three keys; res the last call: its name,
\* its id argument, whether setItem failed in it, whether it threw to the
\* app, and the number of writes so far.
Call(op, id, failed, threw, writes) ==
    [op |-> op, id |-> id, failed |-> failed, threw |-> threw,
     writes |-> writes]

\* an error that reached the app
Crashed == res.threw

\* mounted: the initialization effect read the settings and ran
\* updateChallenges, App.tsx:80-105
InitStorage ==
    /\ args \in [scores : ({ Absent(JNull), Malformed(JNull), Json(JObject), Json(JString("ab")), Json(JArray(<<>>)), Json(JArray(<< ComboRecord(200, <<5>>) >>)) }), settings : ({ Absent(Primitive(Null)), Malformed(Primitive(Null)), Json(Array), Json(Primitive(Num(5))), Json(DefaultSettingsObject) }),
                 challenges : ({ Absent(JNull), Malformed(JNull), Json(JObject), Json(([type |-> "number", items |-> <<>>, str |-> "5"])), Json(JString("ab")), Json(JNull), Json(JArray(<<>>)), Json(JArray(<<"combo_king">>)) })]
    /\ res = Call("mount", "", FALSE,
                  UpdateChallengesThrows(args.challenges), 0)
    /\ settings = MountSettings(IF args.settings.kind = "json"
                                  THEN << args.settings.value >> ELSE <<>>)
    /\ gameStats = InitialStats
    /\ bubblePos = NULL
    /\ isPaused = FALSE
    /\ isMobile = FALSE
    /\ timerRef = NULL
    /\ spawnTimeouts = EmptyBag
    /\ viewport = InitialViewport
    /\ clickClosure = [combo |-> 0, level |-> 1, boardRect |-> CurrentRect]
    /\ now = 0
    /\ bubbleSpawnTime = 0
    /\ lastClickTime = 0
    /\ pausedTime = 0
    /\ savedRecords = <<>>
    /\ completed = {}
    /\ random = <<0, 0>>
    /\ position = NullPosition

\* saveScore(record) of the game-end effect, App.tsx:386
storeScore(record, fails) ==
    /\ ~Crashed /\ res.writes < MaxWrites
    /\ LET outcome == SaveScoreOutcome(args.scores, record, fails)
       IN  /\ args' = [args EXCEPT !.scores = outcome.content]
           /\ res' = Call("saveScore", "", fails, outcome.threw,
                          res.writes + 1)
    /\ UNCHANGED gameVars

\* markChallengeComplete(id) of the game-end effect, App.tsx:400
storeChallenge(id, fails) ==
    /\ ~Crashed /\ res.writes < MaxWrites
    /\ LET outcome == MarkChallengeOutcome(args.challenges, id, fails)
       IN  /\ args' = [args EXCEPT !.challenges = outcome.content]
           /\ res' = Call("markChallengeComplete", id, fails, outcome.threw,
                          res.writes + 1)
    /\ UNCHANGED gameVars

\* updateChallenges() of the game-end effect, App.tsx:404
refreshChallenges ==
    /\ ~Crashed /\ res.op = "markChallengeComplete"
    /\ res' = Call("updateChallenges", "", FALSE,
                   UpdateChallengesThrows(args.challenges), res.writes)
    /\ UNCHANGED <<args, gameVars>>

\* the sound button and the settings effect that follows, part_001:86,
\* App.tsx:108-111 with saveStoredSettings, storageService.ts:93-99
toggleSoundAndStore(fails) ==
    /\ ~Crashed /\ res.writes < MaxWrites
    /\ toggleSound
    /\ LET outcome == TryCatch(setItem(args.settings,
                                        Json(ToObject(settings')), fails),
                                args.settings)
       IN  /\ args' = [args EXCEPT !.settings = outcome.content]
           /\ res' = Call("saveStoredSettings", "", fails, outcome.threw,
                          res.writes + 1)

NextStorage ==
    \/ \E fails \in BOOLEAN :
         \/ \E record \in {ComboRecord(300, <<1>>)} : storeScore(record, fails)
         \/ \E id \in {"combo_king", "marathon"} : storeChallenge(id, fails)
         \/ toggleSoundAndStore(fails)
    \/ refreshChallenges
    \/ /\ ~Crashed
       /\ \/ Pending < MaxPendingSettings /\ startGame
          \/ handleSurrender
          \/ \E closure \in BagToSet(spawnTimeouts) : spawnBubble(closure)
       /\ UNCHANGED <<args, res>>

SpecStorage == InitStorage /\ [][NextStorage]_vars

\* the last call was a write whose setItem failed
WriteFailed ==
    res.failed /\ res.op \in {"saveScore", "markChallengeComplete",
                              "saveStoredSettings"}

\* C32: a write that fails in saveScore, markChallengeComplete or
\* saveStoredSettings throws nothing to the app, leaves the three keys
\* and the session as they were, and the app goes on: a session can be
\* started.
C32_WriteFailureSwallowed ==
    /\ [][res'.writes = res.writes + 1 /\ WriteFailed' =>
            /\ ~res'.threw
            /\ args' = args
            /\ UNCHANGED <<gameStats, bubblePos, isPaused, timerRef,
                           spawnTimeouts>>]_vars
    /\ [](WriteFailed /\ ~gameStats.isPlaying
             /\ Pending < MaxPendingSettings =>
               ENABLED (~Crashed /\ startGame))

\* the write of a record failed: the key still holds what it held and
\* nothing was thrown
C32_Witness ==
    /\ res.op = "saveScore" /\ res.failed /\ ~res.threw
    /\ args.scores = Json(JArray(<< ComboRecord(200, <<5>>) >>))
    /\ ~gameStats.isPlaying

\* the key holds no array: nothing, a text that does not parse, or a
\* value of another shape
NoArray(content) == content.kind # "json" \/ content.value.type # "array"

\* the ids held by the key when it holds an array
IdsOf(content) ==
    IF NoArray(content)
      THEN {}
      ELSE { content.value.items[i] : i \in 1..Len(content.value.items) }

\* C33: whatever the three keys hold, the app reads an empty history, the
\* default settings and an empty set of completed challenges from a key
\* that holds no value of the expected shape, no error reaches the app,
\* and a record saved or a challenge marked afterwards is stored.
C33_InvalidDataRecovered ==
    /\ [](NoArray(args.scores) => StoredScores(args.scores) = <<>>)
    /\ [](args.settings.kind # "json" \/ ~IsObject(args.settings.value)
            \/ args.settings.value = Array =>
              getStoredSettings(IF args.settings.kind = "json"
                                  THEN << args.settings.value >> ELSE <<>>)
                \in { <<>>, << DefaultSettingsObject >> })
    /\ [](NoArray(args.challenges) =>
            getCompletedChallenges(args.challenges) = JArray(<<>>))
    /\ [](~Crashed)
    /\ [][res'.writes = res.writes + 1 /\ ~res'.failed =>
            /\ res'.op = "saveScore" => StoredScores(args'.scores) # <<>>
            /\ res'.op = "markChallengeComplete" =>
                 res'.id \in IdsOf(args'.challenges)]_vars

\* the key holds nothing or an array of ids without repetition
IdSet(content) ==
    \/ content.kind = "absent"
    \/ /\ ~NoArray(content)
       /\ \A i, j \in 1..Len(content.value.items) :
            content.value.items[i] = content.value.items[j] => i = j

\* C34: the stored completed challenges stay a set and only grow: every
\* id stored before a step is stored after it, no id is stored twice, and
\* marking an id that is stored leaves the key as it is.
C34_CompletedGrows ==
    [][IdSet(args.challenges) =>
         /\ IdSet(args'.challenges)
         /\ IdsOf(args.challenges) \subseteq IdsOf(args'.challenges)
         /\ /\ res'.writes = res.writes + 1
            /\ res'.op = "markChallengeComplete"
            /\ res'.id \in IdsOf(args.challenges)
            => args'.challenges = args.challenges]_vars

\* a second challenge was marked, then the first one again
C34_Witness ==
    /\ res.op = "markChallengeComplete" /\ res.id = "combo_king"
    /\ ~res.failed /\ res.writes = 2
    /\ args.challenges = Json(JArray(<<"combo_king", "marathon">>))

----------------------------------------------------------------------------
(* The challenges of the game-end effect, App.tsx:63-68, 397-402 *)

\* DEFINED_CHALLENGES.forEach of the game-end effect on the final stats
\* drawn by InitRecord: res becomes the 1-tuple of the ids marked.
checkChallenges ==
    /\ res = <<>>
    /\ res' = << { id \in ChallengeIds :
                     ChallengeCondition(id, FinalStats(args),
                                        FinalSettings(args)) } >>
    /\ UNCHANGED <<args, gameVars>>


SpecChallenges == InitRecord /\ [][(checkChallenges)]_vars

\* C35: precision_master is marked for the sessions that end with at
\* least 20 clicks (hits + misses >= 20) and an accuracy of at least 95 %,
\* and for no other.
C35_PrecisionMaster ==
    res # <<>> =>
      ("precision_master" \in res[1]
         <=> /\ args.hits + args.misses >= 20
             /\ args.hits * 100 >= 95 * (args.hits + args.misses))

----------------------------------------------------------------------------
(* The counters of a session *)

\* a new session starts
StartStep == ~gameStats.isPlaying /\ gameStats'.isPlaying

\* C36: combo <= maxCombo <= hits in every state; but for the start of a
\* session, hits changes only by a hit, which adds 1 to hits and to combo,
\* maxCombo is the larger of what it was and the new combo, and so neither
\* hits nor maxCombo is lowered by a miss, a tick, a pause, a resume or a
\* surrender.
C36_ComboCounters ==
    /\ [](gameStats.combo <= gameStats.maxCombo
            /\ gameStats.maxCombo <= gameStats.hits)
    /\ [][~StartStep =>
            /\ gameStats'.hits \in {gameStats.hits, gameStats.hits + 1}
            /\ HitStep => gameStats'.combo = gameStats.combo + 1
            /\ gameStats'.maxCombo =
                 Max(gameStats.maxCombo, gameStats'.combo)
            /\ gameStats'.maxCombo >= gameStats.maxCombo]_vars

\* two hits, a miss, a third hit, and the session was given up
C36_Witness ==
    /\ ~gameStats.isPlaying
    /\ gameStats.hits = 3 /\ gameStats.misses = 1
    /\ gameStats.combo = 1 /\ gameStats.maxCombo = 2

\* C37: at most one spawn timeout is pending at any time; when a session
\* starts, the only one pending is its own first spawn, so that no timeout
\* of an earlier session can set the target of this one, and there is no
\* target until that first spawn fires.
C37_SpawnTimers ==
    /\ [](Pending <= 1)
    /\ [][StartStep => Pending' = 1 /\ bubblePos' = NULL]_vars

----------------------------------------------------------------------------
(* The size of a Survival target, App.tsx:229-235, 499-502 *)

\* Validated bubble sizes tried (storageService.ts:40).

InitSize ==
    /\ settings = DEFAULT_SETTINGS
    /\ gameStats = InitialStats
    /\ bubblePos = NULL
    /\ isPaused = FALSE
    /\ isMobile = FALSE
    /\ timerRef = NULL
    /\ spawnTimeouts = EmptyBag
    /\ viewport = InitialViewport
    /\ clickClosure = [combo |-> 0, level |-> 1, boardRect |-> CurrentRect]
    /\ now = 0
    /\ bubbleSpawnTime = 0
    /\ lastClickTime = 0
    /\ pausedTime = 0
    /\ savedRecords = <<>>
    /\ completed = {}
    /\ random = <<0, 0>>
    /\ position = NullPosition
    /\ args \in [bubbleSize : ({10, 20, 29, 30, 31, 32, 33, 40, 60, 90, 150, 300}), level : 1..MaxLevel]
    /\ res = <<>>

\* the size at a level and at the next one
sizeBubble ==
    /\ res = <<>>
    /\ res' = << BubbleSize(SURVIVAL, args.bubbleSize, args.level),
                 BubbleSize(SURVIVAL, args.bubbleSize, args.level + 1) >>
    /\ UNCHANGED <<args, gameVars>>


SpecSize == InitSize /\ [][(sizeBubble)]_vars

\* C38: the size of a Survival target is never above settings.bubbleSize
\* and does not grow from a level to the next, for bubbleSize in
\* [10, 300] and levels from 1 on.
C38_SizeShrinks ==
    res # <<>> =>
      /\ args.bubbleSize \in 10..300 /\ args.level >= 1
      /\ res[1] <= args.bubbleSize
      /\ res[2] <= res[1]

----------------------------------------------------------------------------
(* Sessions left to their timers *)

\* args counts what the player may still do; the timers need no player.
InitLive ==
    /\ settings \in StoredSettings
    /\ gameStats = InitialStats
    /\ bubblePos = NULL
    /\ isPaused = FALSE
    /\ isMobile \in BOOLEAN
    /\ timerRef = NULL
    /\ spawnTimeouts = EmptyBag
    /\ viewport = InitialViewport
    /\ clickClosure = [combo |-> 0, level |-> 1, boardRect |-> CurrentRect]
    /\ now = 0
    /\ bubbleSpawnTime = 0
    /\ lastClickTime = 0
    /\ pausedTime = 0
    /\ savedRecords = <<>>
    /\ completed = {}
    /\ random = <<0, 0>>
    /\ position = NullPosition
    /\ args = MaxActs
    /\ res = <<>>

\* what the player does: start, click, pause and resume, leave the pointer
\* lock, give up
PlayerStep ==
    /\ args > 0
    /\ args' = args - 1
    /\ UNCHANGED res
    /\ \/ startGame
       \/ \E r \in ReactionTimes : handleHit(r)
       \/ handleMiss
       \/ togglePause
       \/ handleLockChange
       \/ handleSurrender

\* the countdown interval, setInterval of App.tsx:300
TickStep == tick /\ UNCHANGED <<args, res>>

\* the expiry poll, setInterval of App.tsx:317
PollStep == expire /\ UNCHANGED <<args, res>>

\* a spawn timeout, setTimeout of App.tsx:352, 452
SpawnStep ==
    /\ \E closure \in BagToSet(spawnTimeouts) : spawnBubble(closure)
    /\ UNCHANGED <<args, res>>


\* The browser runs every timer that is due: an interval or a timeout
\* that stays set fires.
SpecLive ==
    /\ InitLive /\ [][(PlayerStep \/ TickStep \/ PollStep \/ SpawnStep)]_vars
    /\ WF_vars(TickStep) /\ WF_vars(PollStep) /\ WF_vars(SpawnStep)

\* C39: a session that is running and not paused when the player stops
\* acting ends by itself: in TimeTrial every tick takes 1 from timeLeft,
\* which starts at settings.duration, and the tick at 1 ends the session;
\* in Survival every expiry takes a life and puts a new target, and the
\* third one ends the session.
C39_SessionEnds ==
    /\ (gameStats.isPlaying /\ ~isPaused /\ args = 0)
         ~> ~gameStats.isPlaying
    /\ [](Running(TIME_TRIAL) => gameStats.timeLeft <= settings.duration)
    /\ [][Running(TIME_TRIAL) /\ gameStats'.timeLeft # gameStats.timeLeft =>
            \/ gameStats'.timeLeft = gameStats.timeLeft - 1
            \/ ~gameStats'.isPlaying]_vars
    /\ [][Running(SURVIVAL) /\ ExpiryStep =>
            /\ gameStats'.lives = gameStats.lives - 1
            /\ gameStats'.isPlaying => bubblePos' # NULL]_vars

\* a Survival session without a hit, ended by its third expiry after the
\* player had stopped acting
C39_Witness ==
    /\ args = 0
    /\ settings.gameMode = SURVIVAL
    /\ ~gameStats.isPlaying
    /\ gameStats.hits = 0 /\ gameStats.misses = 3 /\ gameStats.lives = 0

====
